---- MODULE Spec2Model ----
(***************************************************************************)
(* Schema2API: a mock REST server driven by one uploaded JSON schema.      *)
(*                                                                         *)
(* The model follows src/main.go: the process-wide pointer currentSchema,  *)
(* uploadHandler, which replaces it, and catchAllHandler, which reads it   *)
(* and synthesizes a response with dummyData.                              *)
(*                                                                         *)
(* Strings the code takes apart or compares piecewise (titles, paths, path *)
(* segments, JSON string values) are sequences of one-character strings.   *)
(* Property names, type tags, methods and the fixed texts of http.Error    *)
(* are only ever compared whole and are plain strings.                     *)
(*                                                                         *)
(* Two specifications share the definitions of the handler's phases:       *)
(*   Spec      every handler runs to completion before the next starts     *)
(*             (the way main_test.go drives the handlers);                 *)
(*   RaceSpec  one catch-all request advances one read of currentSchema at *)
(*             a time while an upload may assign currentSchema in between  *)
(*             (net/http serves each connection on its own goroutine and   *)
(*             nothing guards currentSchema).                              *)
(***************************************************************************)
EXTENDS Integers, Sequences, FiniteSets, TLC

VARIABLES
    currentSchema,  \* main.go:26, Nil or a Schema record
    last,           \* the latest handler call under Spec: request and response
    uploaded,       \* history: some upload has succeeded
    prevEntity,     \* history: entity name of the schema the latest upload replaced
    req,            \* RaceSpec: the in-flight catch-all request's locals
    seen,           \* RaceSpec history: schemas the store held during the request
    uploads         \* RaceSpec history: number of uploads that have run

vars == <<currentSchema, last, uploaded, prevEntity, req, seen, uploads>>

-----------------------------------------------------------------------------
(* Bounds *)

\* Largest number of properties a schema of Spec declares.
MaxProps == 2

\* Largest number of properties a schema of RaceSpec declares.
MaxRaceProps == 1

\* Number of uploads that may run beside the in-flight request of RaceSpec.
MaxRaceUploads == 1

-----------------------------------------------------------------------------
(* Strings *)

Slash == <<"/">>
TitleUser == <<"U", "s", "e", "r">>
TitleItem == <<"I", "t", "e", "m">>
users == <<"u", "s", "e", "r", "s">>
items == <<"i", "t", "e", "m", "s">>
example == <<"e", "x", "a", "m", "p", "l", "e">>
DeletedSuccessfully ==
    <<"D", "e", "l", "e", "t", "e", "d", " ",
      "s", "u", "c", "c", "e", "s", "s", "f", "u", "l", "l", "y">>
SchemaUploadedSuccessfully ==
    <<"S", "c", "h", "e", "m", "a", " ", "u", "p", "l", "o", "a", "d", "e", "d", " ",
      "s", "u", "c", "c", "e", "s", "s", "f", "u", "l", "l", "y">>

\* strings.ToLower on one character of the alphabet in use.
LowerChar(c) ==
    CASE c = "U" -> "u"
      [] c = "I" -> "i"
      [] c = "D" -> "d"
      [] c = "S" -> "s"
      [] OTHER -> c

\* strings.ToLower
ToLower(s) == [i \in DOMAIN s |-> LowerChar(s[i])]

RECURSIVE TrimLeft(_)
TrimLeft(s) ==
    IF Len(s) > 0 /\ s[1] = "/" THEN TrimLeft(Tail(s)) ELSE s

RECURSIVE TrimRight(_)
TrimRight(s) ==
    IF Len(s) > 0 /\ s[Len(s)] = "/" THEN TrimRight(SubSeq(s, 1, Len(s) - 1)) ELSE s

\* strings.Trim(s, "/")
Trim(s) == TrimRight(TrimLeft(s))

\* strings.Split(s, "/"): always at least one segment, "" gives <<"">>.
RECURSIVE Split(_)
Split(s) ==
    IF \E i \in DOMAIN s : s[i] = "/"
    THEN LET i == CHOOSE i \in DOMAIN s : s[i] = "/" /\ \A j \in 1..(i - 1) : s[j] # "/"
         IN  <<SubSeq(s, 1, i - 1)>> \o Split(SubSeq(s, i + 1, Len(s)))
    ELSE <<s>>

Digits == {"0", "1", "2", "3", "4", "5", "6", "7", "8", "9"}

DigitVal(c) ==
    CASE c = "0" -> 0 [] c = "1" -> 1 [] c = "2" -> 2 [] c = "3" -> 3 [] c = "4" -> 4
      [] c = "5" -> 5 [] c = "6" -> 6 [] c = "7" -> 7 [] c = "8" -> 8 [] c = "9" -> 9

RECURSIVE DigitsVal(_)
DigitsVal(s) ==
    IF Len(s) = 0 THEN 0
    ELSE 10 * DigitsVal(SubSeq(s, 1, Len(s) - 1)) + DigitVal(s[Len(s)])

\* strconv.Atoi: an optional sign, then one or more decimal digits. The
\* segments of Paths are far shorter than the 19 digits at which the
\* range error of a 64-bit int starts.
Atoi(s) ==
    LET signed == Len(s) > 0 /\ s[1] \in {"+", "-"}
        body   == IF signed THEN Tail(s) ELSE s
        ok     == Len(body) > 0 /\ \A i \in DOMAIN body : body[i] \in Digits
    IN  [err |-> ~ok,
         val |-> IF ~ok THEN 0
                 ELSE IF signed /\ s[1] = "-" THEN 0 - DigitsVal(body)
                 ELSE DigitsVal(body)]

-----------------------------------------------------------------------------
(* Schema, Property and the values of a synthesized object *)

Nil == [nil |-> TRUE]

PropNames == {"id", "name", "email"}
Types == {"string", "integer", "number", "boolean", "object"}
Titles == {TitleUser, TitleItem}

\* The type tags the uploaded documents give each property.
TypesOf(name) ==
    CASE name = "id"    -> {"integer", "string", "number"}
      [] name = "name"  -> Types
      [] name = "email" -> {"string"}

\* map[string]Property with at most n entries
PropMaps(n) ==
    UNION {{p \in [keys -> [Type : Types]] : \A k \in keys : p[k].Type \in TypesOf(k)} :
              keys \in {k \in SUBSET PropNames : Cardinality(k) <= n}}

\* []string of the "required" member in the uploaded documents: empty, or
\* naming the only property of a document that declares one.
RequiredLists(props) ==
    {<<>>} \cup (IF Cardinality(DOMAIN props) = 1 THEN {<<k>> : k \in DOMAIN props} ELSE {})

Schema(title, props, required) ==
    [Title |-> title, Type |-> "object", Properties |-> props, Required |-> required]

\* What decoding "{}" or "null" leaves in a Schema: every member zero.
ZeroSchema ==
    [Title |-> <<>>, Type |-> "", Properties |-> <<>>, Required |-> <<>>]

SchemasUpTo(n) ==
    {ZeroSchema} \cup
    UNION {{Schema(t, p, r) : r \in RequiredLists(p)} : <<t, p>> \in Titles \X PropMaps(n)}

Schemas == SchemasUpTo(MaxProps)
RaceSchemas == SchemasUpTo(MaxRaceProps)

\* interface{} values as encoding/json tells them apart
StrVal(s) == [t |-> "string", n |-> 0, s |-> s]
IntVal(n) == [t |-> "int", n |-> n, s |-> <<>>]
FloatVal(n) == [t |-> "float", n |-> n, s |-> <<>>]
BoolVal(b) == [t |-> "bool", n |-> IF b THEN 1 ELSE 0, s |-> <<>>]
NullVal == [t |-> "null", n |-> 0, s |-> <<>>]

EmptyObj == <<>>

\* m[k] = v on a Go map
Put(m, k, v) == [x \in (DOMAIN m) \cup {k} |-> IF x = k THEN v ELSE m[x]]

-----------------------------------------------------------------------------
(* dummyData, main.go:29-49 *)

\* The switch on prop.Type, main.go:35-46.
Placeholder(type) ==
    CASE type = "string"  -> StrVal(example)
      [] type = "integer" -> IntVal(1)
      [] type = "number"  -> FloatVal(0)
      [] type = "boolean" -> BoolVal(FALSE)
      [] OTHER            -> NullVal

\* dummyData reads currentSchema at line 31 (nil check) and again at line 34.
\* cs is the value of that read; the store never returns to nil once set, so
\* a second value read at line 34 is a schema like the first and the two
\* reads are one here.
dummyData(cs) ==
    IF cs = Nil THEN EmptyObj
    ELSE [key \in DOMAIN cs.Properties |-> Placeholder(cs.Properties[key].Type)]

-----------------------------------------------------------------------------
(* Responses *)

NoResp ==
    [status |-> 0, ctype |-> "", kind |-> "none", msg |-> "", obj |-> EmptyObj, list |-> <<>>]

\* http.Error (and http.NotFound through it): sets Content-Type to
\* text/plain, writes the status code and the message as the body.
HttpError(msg, code) ==
    [status |-> code, ctype |-> "text/plain; charset=utf-8", kind |-> "text",
     msg |-> msg, obj |-> EmptyObj, list |-> <<>>]

\* Faulty variant of JsonResponse: the Content-Type header is never set, so net/http
\* sniffs the body and announces text/plain.
JsonResponseNoHeader(kind, obj, list) ==
    [status |-> 200, ctype |-> "text/plain; charset=utf-8", kind |-> kind,
     msg |-> "", obj |-> obj, list |-> list]

\* main.go:212-213 (and 64-69): Content-Type application/json, then the
\* encoder's first write sends status 200 and the encoded value.
JsonResponse(kind, obj, list) ==
    [status |-> 200, ctype |-> "application/json", kind |-> kind,
     msg |-> "", obj |-> obj, list |-> list]

-----------------------------------------------------------------------------
(* catchAllHandler, main.go:73-216, one phase per read of currentSchema.   *)
(* l holds the handler's locals, cs is the value the phase reads from      *)
(* currentSchema.                                                          *)

Methods == {"GET", "POST", "PUT", "DELETE", "PATCH"}

Start(method, path) ==
    [pc |-> "check", method |-> method, path |-> path, segments |-> <<>>,
     entity |-> <<>>, shape |-> "", obj |-> EmptyObj, list |-> <<>>, i |-> 1,
     order |-> <<>>, resp |-> NoResp]

Finish(l, resp) == [l EXCEPT !.pc = "done", !.resp = resp]

\* Faulty variant of CheckSchema: the method is rejected before the store is looked at.
CheckSchemaAfterMethod(l, cs) ==
    IF l.method \notin {"GET", "POST", "PUT", "DELETE"}
    THEN Finish(l, HttpError("Method not supported", 405))
    ELSE IF cs = Nil
    THEN Finish(l, HttpError("No schema uploaded. Please POST your JSON schema to /upload", 400))
    ELSE [l EXCEPT !.pc = "route"]

\* main.go:75-78
CheckSchema(l, cs) ==
    IF cs = Nil
    THEN Finish(l, HttpError("No schema uploaded. Please POST your JSON schema to /upload", 400))
    ELSE [l EXCEPT !.pc = "route"]

\* main.go:80-87, 96, 133-139, 142-144, 177-183, 203-210: segments, entity
\* and the choice of a route by method and path.
Route(l, cs) ==
    LET segments == Split(Trim(l.path))
        entity   == ToLower(cs.Title) \o <<"s">>
        m        == [l EXCEPT !.segments = segments, !.entity = entity]
        isList   == Len(segments) = 1 /\ segments[1] = entity
        isSingle == Len(segments) = 2 /\ segments[1] = entity
        notFound == Finish(m, HttpError("404 page not found", 404))
    IN  CASE l.method = "GET" ->
               IF isList THEN [m EXCEPT !.pc = "dummy", !.shape = "list"]
               ELSE IF isSingle THEN [m EXCEPT !.pc = "dummy", !.shape = "single"]
               ELSE notFound
          [] l.method = "POST" -> [m EXCEPT !.pc = "dummy", !.shape = "post"]
          [] l.method = "PUT" ->
               IF isSingle THEN [m EXCEPT !.pc = "dummy", !.shape = "put"]
               ELSE notFound
          [] l.method = "DELETE" ->
               IF isSingle THEN [m EXCEPT !.pc = "idprop", !.shape = "delete"]
               ELSE notFound
          [] OTHER -> Finish(m, HttpError("Method not supported", 405))

\* Faulty variant of Dummy: the list loop runs while i < 3.
DummyShortList(l, cs) ==
    LET obj == dummyData(cs)
    IN  CASE l.shape = "list" ->
               LET list == Append(l.list, Put(obj, "id", IntVal(l.i)))
               IN  IF l.i + 1 < 3
                   THEN [l EXCEPT !.list = list, !.i = l.i + 1]
                   ELSE Finish([l EXCEPT !.list = list, !.i = l.i + 1],
                               JsonResponse("list", EmptyObj, list))
          [] l.shape = "post" ->
               LET o == Put(obj, "id", IntVal(1))
               IN  Finish([l EXCEPT !.obj = o], JsonResponse("object", o, <<>>))
          [] OTHER -> [l EXCEPT !.obj = obj, !.pc = "idprop"]

\* One call of dummyData and what follows it up to the next read of
\* currentSchema: main.go:90-95 (one round of the list loop), 99, 139-141, 146.
Dummy(l, cs) ==
    LET obj == dummyData(cs)
    IN  CASE l.shape = "list" ->
               LET list == Append(l.list, Put(obj, "id", IntVal(l.i)))
               IN  IF l.i + 1 <= 3
                   THEN [l EXCEPT !.list = list, !.i = l.i + 1]
                   ELSE Finish([l EXCEPT !.list = list, !.i = l.i + 1],
                               JsonResponse("list", EmptyObj, list))
          [] l.shape = "post" ->
               LET o == Put(obj, "id", IntVal(1))
               IN  Finish([l EXCEPT !.obj = o], JsonResponse("object", o, <<>>))
          [] OTHER -> [l EXCEPT !.obj = obj, !.pc = "idprop"]

\* main.go:102-103, 149-150, 186-187
isIntegerExpected(cs) ==
    "id" \in DOMAIN cs.Properties /\ cs.Properties["id"].Type = "integer"

\* Faulty variant of IdProp: DELETE acknowledges without validating the segment.
IdPropDeleteUnchecked(l, cs) ==
    LET requestedID == l.segments[2]
        parsed      == Atoi(requestedID)
        deleted     == Put(EmptyObj, "message", StrVal(DeletedSuccessfully))
    IN  IF l.shape = "delete"
        THEN Finish(l, JsonResponse("object", deleted, <<>>))
        ELSE IF isIntegerExpected(cs)
        THEN IF parsed.err
             THEN Finish(l, HttpError("Invalid ID format: expected integer", 400))
             ELSE LET o == Put(l.obj, "id", IntVal(parsed.val))
                  IN  Finish([l EXCEPT !.obj = o], JsonResponse("object", o, <<>>))
        ELSE [l EXCEPT !.pc = "scan"]

\* main.go:98-112, 145-159, 185-202: the id-type read and the integer branch.
IdProp(l, cs) ==
    LET requestedID == l.segments[2]
        parsed      == Atoi(requestedID)
        deleted     == Put(EmptyObj, "message", StrVal(DeletedSuccessfully))
    IN  IF isIntegerExpected(cs)
        THEN IF parsed.err
             THEN Finish(l, HttpError("Invalid ID format: expected integer", 400))
             ELSE IF l.shape = "delete"
             THEN Finish(l, JsonResponse("object", deleted, <<>>))
             ELSE LET o == Put(l.obj, "id", IntVal(parsed.val))
                  IN  Finish([l EXCEPT !.obj = o], JsonResponse("object", o, <<>>))
        ELSE IF l.shape = "delete"
             THEN Finish(l, JsonResponse("object", deleted, <<>>))
             ELSE [l EXCEPT !.pc = "scan"]

\* The orders in which a range over the map may visit its keys.
Orders(cs) ==
    IF cs = Nil THEN {<<>>}
    ELSE LET keys == DOMAIN cs.Properties
         IN  {o \in [1..Cardinality(keys) -> keys] :
                  \A a, b \in 1..Cardinality(keys) : a # b => o[a] # o[b]}

\* The loop of main.go:118-129 (164-173), visiting the keys in `order`.
RECURSIVE scanFrom(_, _, _, _, _)
scanFrom(props, order, k, stringKey, foundKey) ==
    IF k > Len(order) THEN stringKey
    ELSE LET key == order[k]
             prop == props[key]
         IN  IF key = "id" /\ prop.Type = "string"
             THEN key
             ELSE IF prop.Type = "string" /\ ~foundKey
             THEN scanFrom(props, order, k + 1, key, foundKey)
             ELSE scanFrom(props, order, k + 1, stringKey, foundKey)

\* main.go:116-130, 162-174
stringKey(cs, order) == scanFrom(cs.Properties, order, 1, "id", FALSE)

\* main.go:114-132, 161-176: the string-id branch.
ScanKey(l, cs, order) ==
    LET o == Put(l.obj, stringKey(cs, order), StrVal(l.segments[2]))
    IN  Finish([l EXCEPT !.obj = o, !.order = order], JsonResponse("object", o, <<>>))

\* The phase at l.pc, reading cs.
Step(l, cs, order) ==
    CASE l.pc = "check"  -> CheckSchema(l, cs)
      [] l.pc = "route"  -> Route(l, cs)
      [] l.pc = "dummy"  -> Dummy(l, cs)
      [] l.pc = "idprop" -> IdProp(l, cs)
      [] l.pc = "scan"   -> ScanKey(l, cs, order)
      [] OTHER           -> l

\* The handler run from l to its return with every read giving cs.
RECURSIVE Run(_, _, _)
Run(l, cs, order) ==
    IF l.pc = "done" THEN l ELSE Run(Step(l, cs, order), cs, order)

\* The handler run from l up to its return or to the range loop, whichever
\* comes first, with every read giving cs.
RECURSIVE RunToScan(_, _)
RunToScan(l, cs) ==
    IF l.pc \in {"done", "scan"} THEN l ELSE RunToScan(Step(l, cs, <<>>), cs)

\* The orders the range loop may take when l has reached it.
ScanOrders(l, cs) == IF l.pc = "scan" THEN Orders(cs) ELSE {<<>>}

-----------------------------------------------------------------------------
(* Requests *)

\* r.URL.Path of the requests sent to the catch-all handler.
Paths ==
    { Slash,
      Slash \o users,
      Slash \o users \o Slash \o <<"1", "2">>,
      Slash \o users \o Slash \o <<"a", "b">>,
      Slash \o users \o Slash \o <<"1">> \o Slash \o <<"2">>,
      Slash \o items \o Slash }

\* json.NewDecoder(r.Body).Decode(&schema) on a request body: `doc` is what
\* the decoder has stored into the local schema when it returns, `valid`
\* whether it returns without error. A body cut short or malformed after its
\* title gives an error with the title already stored.
Decode(body) == [err |-> ~body.valid, schema |-> body.doc]

ValidBodies == {[valid |-> TRUE, doc |-> s] : s \in Schemas}
InvalidBodies ==
    {[valid |-> FALSE, doc |-> s] : s \in {ZeroSchema, Schema(TitleItem, <<>>, <<>>)}}
NoBody == [valid |-> FALSE, doc |-> Nil]

NoCall ==
    [op |-> "none", method |-> "", path |-> <<>>, body |-> NoBody, order |-> <<>>,
     resp |-> NoResp, hadSchema |-> FALSE]

Idle == [Start("", <<>>) EXCEPT !.pc = "idle"]

\* The entity name of a stored schema, main.go:82.
EntityOf(cs) == IF cs = Nil THEN <<>> ELSE ToLower(cs.Title) \o <<"s">>

-----------------------------------------------------------------------------
(* uploadHandler, main.go:52-70 *)

\* Faulty variant of uploadOutcome: the decoded value is stored before the error check.
uploadOutcomeEager(method, body, cs) ==
    LET dec == Decode(body)
    IN  IF method # "POST"
        THEN [store |-> cs, resp |-> HttpError("Only POST allowed", 405)]
        ELSE IF dec.err
        THEN [store |-> dec.schema, resp |-> HttpError("Invalid JSON schema: err", 400)]
        ELSE [store |-> dec.schema,
              resp  |-> JsonResponse("object",
                            Put(Put(EmptyObj, "message", StrVal(SchemaUploadedSuccessfully)),
                                "title", StrVal(dec.schema.Title)),
                            <<>>)]

\* The handler's effect on the store cs and its response.
uploadOutcome(method, body, cs) ==
    LET dec == Decode(body)
    IN  IF method # "POST"
        THEN [store |-> cs, resp |-> HttpError("Only POST allowed", 405)]
        ELSE IF dec.err
        THEN [store |-> cs, resp |-> HttpError("Invalid JSON schema: err", 400)]
        ELSE [store |-> dec.schema,
              resp  |-> JsonResponse("object",
                            Put(Put(EmptyObj, "message", StrVal(SchemaUploadedSuccessfully)),
                                "title", StrVal(dec.schema.Title)),
                            <<>>)]

uploadHandler(method, body) ==
    LET out == uploadOutcome(method, body, currentSchema)
    IN  /\ currentSchema' = out.store
        /\ last' = [op |-> "upload", method |-> method, path |-> <<>>, body |-> body,
                    order |-> <<>>, resp |-> out.resp, hadSchema |-> currentSchema # Nil]
        /\ uploaded' = (uploaded \/ out.resp.status = 200)
        /\ prevEntity' = IF out.resp.status = 200 THEN EntityOf(currentSchema) ELSE prevEntity
        /\ UNCHANGED <<req, seen, uploads>>

-----------------------------------------------------------------------------
(* catchAllHandler run to completion *)

\* Faulty variant of catchAllHandler: a successful DELETE drops the stored schema.
catchAllHandlerDropping(method, path) ==
    \E order \in ScanOrders(RunToScan(Start(method, path), currentSchema), currentSchema) :
        LET l == Run(RunToScan(Start(method, path), currentSchema), currentSchema, order)
        IN  /\ last' = [op |-> "catchAll", method |-> method, path |-> path,
                        body |-> NoBody, order |-> l.order, resp |-> l.resp,
                        hadSchema |-> uploaded]
            /\ currentSchema' = IF method = "DELETE" /\ l.resp.status = 200
                                THEN Nil ELSE currentSchema
            /\ UNCHANGED <<uploaded, prevEntity, req, seen, uploads>>

catchAllHandler(method, path) ==
    \E order \in ScanOrders(RunToScan(Start(method, path), currentSchema), currentSchema) :
        LET l == Run(RunToScan(Start(method, path), currentSchema), currentSchema, order)
        IN  /\ last' = [op |-> "catchAll", method |-> method, path |-> path,
                        body |-> NoBody, order |-> l.order, resp |-> l.resp,
                        hadSchema |-> uploaded]
            /\ UNCHANGED <<currentSchema, uploaded, prevEntity, req, seen, uploads>>

-----------------------------------------------------------------------------
(* Spec: handlers run one after the other *)

Init ==
    /\ currentSchema = Nil
    /\ last = NoCall
    /\ uploaded = FALSE
    /\ prevEntity = <<>>
    /\ req = Idle
    /\ seen = {}
    /\ uploads = 0

\* Request bodies sent to /upload with POST, and with the other methods.
PostBodies == ValidBodies \cup InvalidBodies
OtherBodies == {[valid |-> TRUE, doc |-> Schema(TitleItem, <<>>, <<>>)]}

UploadPost == \E body \in PostBodies : uploadHandler("POST", body)

UploadOtherMethod ==
    \E method \in Methods \ {"POST"}, body \in OtherBodies : uploadHandler(method, body)

CatchAll == \E method \in Methods, path \in Paths : catchAllHandler(method, path)

Next == UploadPost \/ UploadOtherMethod \/ CatchAll

Spec == Init /\ [][Next]_vars

-----------------------------------------------------------------------------
(* RaceSpec: one catch-all request in flight beside uploads.                *)
(*                                                                         *)
(* The request's goroutine reads the unguarded currentSchema once per      *)
(* phase; the upload's goroutine writes it once, at main.go:63. Each read  *)
(* gives the pointer stored before or after that write, according to where *)
(* the write falls among the reads.                                        *)

\* Some sequence of earlier calls has left the store absent or holding a schema.
RaceInit ==
    /\ currentSchema \in RaceSchemas \cup {Nil}
    /\ last = NoCall
    /\ uploaded = (currentSchema # Nil)
    /\ prevEntity = <<>>
    /\ req = Idle
    /\ seen = {}
    /\ uploads = 0

InFlight == req.pc \notin {"idle", "done"}

\* net/http calls catchAllHandler for an arriving request.
RaceBegin ==
    /\ req.pc = "idle"
    /\ \E method \in Methods, path \in Paths : req' = Start(method, path)
    /\ seen' = {currentSchema}
    /\ UNCHANGED <<currentSchema, last, uploaded, prevEntity, uploads>>

\* The request runs up to and including its next read of currentSchema.
RaceStep ==
    /\ InFlight
    /\ \E order \in ScanOrders(req, currentSchema) : req' = Step(req, currentSchema, order)
    /\ UNCHANGED <<currentSchema, last, uploaded, prevEntity, seen, uploads>>

\* uploadHandler on another goroutine decodes a schema and assigns it.
RaceUpload ==
    /\ uploads < MaxRaceUploads
    /\ \E s \in RaceSchemas :
         /\ currentSchema' = uploadOutcome("POST", [valid |-> TRUE, doc |-> s], currentSchema).store
         /\ seen' = IF InFlight THEN seen \cup {s} ELSE seen
    /\ uploads' = uploads + 1
    /\ uploaded' = TRUE
    /\ UNCHANGED <<last, prevEntity, req>>

RaceNext == RaceBegin \/ RaceStep \/ RaceUpload

RaceSpec == RaceInit /\ [][RaceNext]_vars

\* The responses the handler gives when every one of its reads sees cs.
SerialResponses(method, path, cs) ==
    LET l == RunToScan(Start(method, path), cs)
    IN  {Run(l, cs, o).resp : o \in ScanOrders(l, cs)}

\* C1: the response of a request that ran beside an upload replacing schema A
\* by schema B is in every schema-derived part the response under one single
\* schema the store held during the request: all from A or all from B.
C1_OneSchemaPerResponse ==
    req.pc = "done" => \E cs \in seen : req.resp \in SerialResponses(req.method, req.path, cs)

-----------------------------------------------------------------------------
(* Properties of Spec. `last` is the latest handler call: its request, its *)
(* response, and for the scan the order in which the map was visited.      *)

Crud == {"GET", "POST", "PUT", "DELETE"}
NoSchemaMsg == "No schema uploaded. Please POST your JSON schema to /upload"
InvalidIdMsg == "Invalid ID format: expected integer"

IsCatchAll == last.op = "catchAll"
LastSegs == Split(Trim(last.path))
Props == currentSchema.Properties

\* The request went to the catch-all handler with a schema active.
Served == IsCatchAll /\ currentSchema # Nil

\* The five route shapes of the router for the entity name e.
RouteShape(method, segs, e) ==
    \/ method = "GET" /\ segs = <<e>>
    \/ method = "GET" /\ Len(segs) = 2 /\ segs[1] = e
    \/ method = "POST" /\ segs = <<e>>
    \/ method = "PUT" /\ Len(segs) = 2 /\ segs[1] = e
    \/ method = "DELETE" /\ Len(segs) = 2 /\ segs[1] = e

\* The placeholder table of the synthesizer.
TablePlaceholder(type) ==
    IF type = "string" THEN StrVal(example)
    ELSE IF type = "integer" THEN IntVal(1)
    ELSE IF type = "number" THEN FloatVal(0)
    ELSE IF type = "boolean" THEN BoolVal(FALSE)
    ELSE NullVal

NotFound == last.resp.status = 404 /\ last.resp.kind = "text"

\* C2: with a schema active and a method among GET, POST, PUT, DELETE, a
\* request whose (method, trimmed path) is none of the five route shapes is
\* answered 404 with no synthesized object.
C2_OffRouteIsNotFound ==
    (Served /\ last.method \in Crud
        /\ ~RouteShape(last.method, LastSegs, EntityOf(currentSchema)))
    => NotFound

\* C2 without POST: what the code does for GET, PUT and DELETE.
C2_OffRouteIsNotFoundExceptPost ==
    (Served /\ last.method \in Crud \ {"POST"}
        /\ ~RouteShape(last.method, LastSegs, EntityOf(currentSchema)))
    => NotFound

\* C3: a catch-all request is answered 400 "No schema uploaded" exactly when
\* no upload has succeeded before it, whatever its method and path; and once
\* an upload has succeeded the store is never absent again.
C3_NoSchemaIffNoUpload ==
    /\ IsCatchAll =>
          ((last.resp.status = 400 /\ last.resp.msg = NoSchemaMsg) <=> ~last.hadSchema)
    /\ uploaded => currentSchema # Nil

C3_Witness ==
    /\ IsCatchAll /\ ~uploaded
    /\ last.method = "PATCH"
    /\ last.path = Slash \o users \o Slash \o <<"1">> \o Slash \o <<"2">>
    /\ last.resp.status = 400 /\ last.resp.msg = NoSchemaMsg

\* C5: with an integer `id` declared, GET, PUT and DELETE on /{entity}/{idSeg}
\* fail with 400 "expected integer" and no object when idSeg is no integer;
\* otherwise GET and PUT return the object with id the parsed integer and
\* DELETE returns exactly the acknowledgment. With no integer `id` declared
\* DELETE acknowledges any idSeg.
C5_IntegerIdRule ==
    (Served /\ last.method \in {"GET", "PUT", "DELETE"}
        /\ Len(LastSegs) = 2 /\ LastSegs[1] = EntityOf(currentSchema))
    => LET idSeg   == LastSegs[2]
           intId   == "id" \in DOMAIN Props /\ Props["id"].Type = "integer"
           acked   == /\ last.resp.status = 200
                      /\ last.resp.kind = "object"
                      /\ DOMAIN last.resp.obj = {"message"}
                      /\ last.resp.obj["message"] = StrVal(DeletedSuccessfully)
       IN  IF intId
           THEN IF Atoi(idSeg).err
                THEN /\ last.resp.status = 400
                     /\ last.resp.msg = InvalidIdMsg
                     /\ last.resp.kind = "text"
                ELSE IF last.method = "DELETE" THEN acked
                ELSE /\ last.resp.status = 200
                     /\ last.resp.kind = "object"
                     /\ DOMAIN last.resp.obj = DOMAIN Props
                     /\ last.resp.obj["id"] = IntVal(Atoi(idSeg).val)
                     /\ \A k \in (DOMAIN Props) \ {"id"} :
                           last.resp.obj[k] = TablePlaceholder(Props[k].Type)
           ELSE last.method = "DELETE" => acked

C5_Witness ==
    /\ Served /\ last.method = "DELETE"
    /\ last.path = Slash \o users \o Slash \o <<"a", "b">>
    /\ EntityOf(currentSchema) = users
    /\ "id" \in DOMAIN Props /\ Props["id"].Type = "integer"
    /\ last.resp.status = 400

\* C6: GET /{entity} returns a list of exactly 3 objects with id 1, 2, 3 in
\* that order, each with one field per declared property (plus id) and every
\* field other than id holding the placeholder of its declared type; the
\* result is a function of the declared properties, not of `required`.
C6_ListOfThree ==
    (Served /\ last.method = "GET" /\ LastSegs = <<EntityOf(currentSchema)>>)
    => /\ last.resp.status = 200
       /\ last.resp.kind = "list"
       /\ Len(last.resp.list) = 3
       /\ \A i \in 1..3 :
            LET o == last.resp.list[i]
            IN  /\ DOMAIN o = (DOMAIN Props) \cup {"id"}
                /\ o["id"] = IntVal(i)
                /\ \A k \in (DOMAIN Props) \ {"id"} : o[k] = TablePlaceholder(Props[k].Type)

C6_Witness ==
    /\ Served /\ last.method = "GET" /\ last.path = Slash \o users
    /\ EntityOf(currentSchema) = users
    /\ currentSchema.Required = <<"name">>
    /\ Props["name"].Type = "number"
    /\ last.resp.status = 200 /\ Len(last.resp.list) = 3

\* The objects a 200 response of a synthesizing route carries.
LastObjects ==
    IF last.resp.kind = "list" THEN {last.resp.list[i] : i \in DOMAIN last.resp.list}
    ELSE IF last.resp.kind = "object" THEN {last.resp.obj}
    ELSE {}

IntId == "id" \in DOMAIN Props /\ Props["id"].Type = "integer"

\* What C4 says of a request of the given methods served after a schema with
\* entity name prevEntity was replaced by the stored one.
OnlyNewestSchema(methods) ==
    (IsCatchAll /\ prevEntity # <<>> /\ last.method \in methods)
    => LET e == EntityOf(currentSchema)
       IN  /\ (LastSegs[1] = prevEntity /\ prevEntity # e) => NotFound
           /\ RouteShape(last.method, LastSegs, e) => last.resp.status \in {200, 400}
           /\ (last.resp.status = 200 /\ last.method # "DELETE") =>
                 \A o \in LastObjects :
                    /\ DOMAIN Props \subseteq DOMAIN o
                    /\ DOMAIN o \subseteq (DOMAIN Props) \cup {"id"}
           /\ (last.method \in {"GET", "PUT", "DELETE"} /\ Len(LastSegs) = 2 /\ LastSegs[1] = e) =>
                 IF IntId
                 THEN IF Atoi(LastSegs[2]).err
                      THEN last.resp.status = 400 /\ last.resp.msg = InvalidIdMsg
                      ELSE /\ last.resp.status = 200
                           /\ last.method # "DELETE" => last.resp.obj["id"] = IntVal(Atoi(LastSegs[2]).val)
                 ELSE last.resp.status = 200

\* C4: after schema B has replaced schema A, every later request reflects
\* only B: B's entity name routes and paths under A's entity name (when it
\* differs) are 404, the objects carry exactly B's properties (plus id), and
\* the integer-or-string id rule follows B's id property.
C4_OnlyNewestSchema == OnlyNewestSchema(Crud)

\* C4 without POST: what the code does for GET, PUT and DELETE.
C4_OnlyNewestSchemaExceptPost == OnlyNewestSchema(Crud \ {"POST"})

\* A catch-all call returned its response.
CatchAllStep == last'.op = "catchAll"

\* C7: no catch-all request changes the store, and its possible responses
\* are those of the stored schema and the request alone: GET /{entity}/{id}
\* after a DELETE of the same path is still 200 with the object, GET /{entity}
\* after a POST still has 3 items.
C7_NoCarryOver ==
    [][CatchAllStep =>
         /\ currentSchema' = currentSchema
         /\ last'.resp \in SerialResponses(last'.method, last'.path, currentSchema)
         /\ (/\ IsCatchAll /\ last.method = "DELETE" /\ last.resp.status = 200
             /\ last'.method = "GET" /\ last'.path = last.path)
            => (last'.resp.status = 200 /\ last'.resp.kind = "object")
         /\ (/\ IsCatchAll /\ last.method = "POST" /\ last.resp.status = 200
             /\ last'.method = "GET"
             /\ Split(Trim(last'.path)) = <<EntityOf(currentSchema)>>)
            => (last'.resp.status = 200 /\ Len(last'.resp.list) = 3)
      ]_vars

C7_Witness ==
    /\ Served /\ last.method = "DELETE" /\ last.resp.status = 200
    /\ last.path = Slash \o users \o Slash \o <<"a", "b">>
    /\ DOMAIN Props = {"name", "email"}

\* C8 as stated: every response of the catch-all handler to GET, POST, PUT or
\* DELETE carries a JSON content-type, the 400 and 404 responses included.
C8_AlwaysJson ==
    (IsCatchAll /\ last.method \in Crud) => last.resp.ctype = "application/json"

\* C8 amended: the 200 responses of the catch-all handler to GET, POST, PUT
\* or DELETE carry a JSON content-type; the 400 no-schema, 400 invalid-id and
\* 404 not-found responses carry text/plain.
C8_JsonOnSuccessOnly ==
    (IsCatchAll /\ last.method \in Crud)
    => /\ last.resp.status \in {200, 400, 404}
       /\ last.resp.status = 200 => last.resp.ctype = "application/json"
       /\ last.resp.status # 200 => last.resp.ctype = "text/plain; charset=utf-8"

C8_Witness ==
    /\ Served /\ last.method = "GET" /\ last.path = Slash \o items \o Slash
    /\ EntityOf(currentSchema) = users
    /\ last.resp.status = 404 /\ last.resp.ctype = "text/plain; charset=utf-8"

Least(S) == CHOOSE i \in S : \A j \in S : i <= j
Greatest(S) == CHOOSE i \in S : \A j \in S : i >= j

\* The string-id choice of C9, taking the first or the last of the
\* string-typed properties in the scan's order.
StringKeyRule(first) ==
    (Served /\ last.method \in {"GET", "PUT"}
        /\ Len(LastSegs) = 2 /\ LastSegs[1] = EntityOf(currentSchema) /\ ~IntId)
    => LET order  == last.order
           strIdx == {i \in DOMAIN order : Props[order[i]].Type = "string"}
           chosen == IF "id" \in DOMAIN Props /\ Props["id"].Type = "string" THEN "id"
                     ELSE IF strIdx # {}
                          THEN order[IF first THEN Least(strIdx) ELSE Greatest(strIdx)]
                     ELSE "id"
           o      == last.resp.obj
       IN  /\ last.resp.status = 200 /\ last.resp.kind = "object"
           /\ Len(order) = Cardinality(DOMAIN Props)
           /\ DOMAIN o = (DOMAIN Props) \cup {chosen}
           /\ o[chosen] = StrVal(LastSegs[2])
           /\ \A k \in (DOMAIN o) \ {chosen} : o[k] = TablePlaceholder(Props[k].Type)

\* C9: with no integer id declared, GET and PUT on /{entity}/{idSeg} set
\* exactly one field to the raw segment: "id" if id is string-typed, else the
\* FIRST string-typed property the scan visits, else "id"; every other field
\* keeps its placeholder.
C9_FirstStringKey == StringKeyRule(TRUE)

\* What the code does: the LAST string-typed property the scan visits.
C9_LastStringKey == StringKeyRule(FALSE)

\* An upload call returned its response.
UploadStep == last'.op = "upload"

\* C10: a failed upload (405 for a method other than POST, 400 for a body
\* that does not parse) leaves the store as it was, absent or not, and only
\* a successful upload (200, the response's title the uploaded one) replaces it.
C10_FailedUploadKeepsStore ==
    [][/\ (UploadStep /\ last'.method # "POST") => last'.resp.status = 405
       /\ (UploadStep /\ last'.method = "POST" /\ ~last'.body.valid) => last'.resp.status = 400
       /\ (UploadStep /\ last'.method = "POST" /\ last'.body.valid) => last'.resp.status = 200
       /\ (UploadStep /\ last'.resp.status # 200) => currentSchema' = currentSchema
       /\ (UploadStep /\ last'.resp.status = 200) =>
             /\ currentSchema' = last'.body.doc
             /\ last'.resp.ctype = "application/json"
             /\ last'.resp.obj["title"] = StrVal(last'.body.doc.Title)
       /\ currentSchema' # currentSchema => (UploadStep /\ last'.resp.status = 200)
      ]_vars

C10_Witness ==
    /\ last.op = "upload" /\ last.method = "POST" /\ last.resp.status = 400
    /\ currentSchema # Nil
    /\ last.body.doc # currentSchema
    /\ last.body.doc.Title = TitleItem /\ currentSchema.Title = TitleUser

====
